---------------------------- MODULE Spec2Model ----------------------------
(***************************************************************************)
(* The data-access layer of the Israel vehicle data server                 *)
(* (src/mcp_server.py): the exact plate lookup, the multi-field search,    *)
(* the license catalog and the resource -> package -> license chain, each  *)
(* as the code runs it against an upstream whose answer is arbitrary.      *)
(*                                                                         *)
(* Python values are tagged records, so that None, "", 0, a string and a   *)
(* one-element list holding that string are all different values.          *)
(***************************************************************************)
EXTENDS Integers, Sequences, FiniteSets, TLC

(***************************************************************************)
(* Bounds of the model.                                                    *)
(***************************************************************************)
MaxRecords == 2
MaxLimit == 2
MaxTotal == 2
MaxLicenses == 1

(***************************************************************************)
(* Python values.                                                          *)
(***************************************************************************)
PyNone == [t |-> "None"]
PyStr(s) == [t |-> "str", s |-> s]
PyInt(n) == [t |-> "int", n |-> n]
PyBool(b) == [t |-> "bool", b |-> b]
PyList(q) == [t |-> "list", items |-> q]
PyDict(f) == [t |-> "dict", d |-> f]
EmptyDict == PyDict(<<>>)
EmptyList == PyList(<<>>)

IsDict(v) == v.t = "dict"
IsList(v) == v.t = "list"
IsInt(v) == v.t = "int"
IsStr(v) == v.t = "str"

\* bool(v): the truth value `if v` and `not v` test.
Truthy(v) ==
    CASE v.t = "None" -> FALSE
      [] v.t = "str"  -> v.s # ""
      [] v.t = "int"  -> v.n # 0
      [] v.t = "bool" -> v.b
      [] v.t = "list" -> Len(v.items) > 0
      [] v.t = "dict" -> DOMAIN v.d # {}
      [] OTHER -> TRUE

\* d.get(k, default) of a dict d.
Get(v, k, default) == IF k \in DOMAIN v.d THEN v.d[k] ELSE default

\* k in d.
HasKey(v, k) == IsDict(v) /\ k \in DOMAIN v.d

Digits == <<"0", "1", "2", "3", "4", "5", "6", "7", "8", "9">>

RECURSIVE NatToStr(_)
NatToStr(n) ==
    IF n < 10 THEN Digits[n + 1]
    ELSE NatToStr(n \div 10) \o Digits[(n % 10) + 1]

\* str(v) of a string or an integer.
PyStrOf(v) ==
    CASE v.t = "str" -> v
      [] v.t = "int" -> PyStr(IF v.n < 0 THEN "-" \o NatToStr(-v.n) ELSE NatToStr(v.n))
      [] OTHER -> PyStr("None")

\* json.dumps(v): the JSON document that denotes v.
JsonDumps(v) == [t |-> "json", doc |-> v]

(***************************************************************************)
(* The outcome of a call: a returned value or a raised exception.          *)
(***************************************************************************)
Return(v) == [kind |-> "return", value |-> v]
Raise(cls, msg) == [kind |-> "raise", exc |-> cls, msg |-> msg]
NoOutcome == [kind |-> "none"]

\* The classes `except Exception` catches: all that the code can raise here.
ExceptionClasses == {"HTTPError", "ValueError", "AttributeError", "TypeError"}

ErrorResult(msg) == PyDict([error |-> PyStr(msg)])

(***************************************************************************)
(* Configuration (module constants).                                       *)
(***************************************************************************)
API_ENDPOINT == "https://data.gov.il/api/3/action/datastore_search"
RESOURCE_ID == PyStr("053cea08-09bc-40ec-8f7a-156f0677aff3")

\* API_ENDPOINT.replace("datastore_search", action)
ActionUrl(action) == "https://data.gov.il/api/3/action/" \o action

Request(method, url, params) == [method |-> method, url |-> url, params |-> params]

(***************************************************************************)
(* What the upstream can answer to one request.                            *)
(***************************************************************************)
NetworkFailure == [http |-> "network_error"]
StatusFailure == [http |-> "status_error"]
NonJson == [http |-> "non_json"]
Json(body) == [http |-> "json", body |-> body]
TransportFailures == {NetworkFailure, StatusFailure, NonJson}

\* client.post / client.get, response.raise_for_status(), response.json()
ReadJson(r) ==
    CASE r.http = "network_error" -> Raise("HTTPError", "connection failed")
      [] r.http = "status_error"  -> Raise("HTTPError", "error status")
      [] r.http = "non_json"      -> Raise("ValueError", "Expecting value")
      [] OTHER                    -> Return(r.body)

\* "success" in data: the field's presence tested for its value.
SucceededIfPresent(data) == "success" \in DOMAIN data.d

\* data.get("success"), as `if not data.get("success")` tests it.
Succeeded(data) == Truthy(Get(data, "success", PyNone))

\* Sequences over S of length at most n.
SeqsUpTo(S, n) == UNION {[1..k -> S] : k \in 0..n}

\* The mappings over a subset of the keys of `fields`, each present key
\* holding one of the values `fields` lists for it (a key may be absent).
OptionalDicts(fields) ==
    UNION {{f \in [K -> UNION {fields[k] : k \in K}] : \A k \in K : f[k] \in fields[k]}
           : K \in SUBSET DOMAIN fields}

Vehicle1 ==
    PyDict([mispar_rechev |-> PyInt(1013660), tozeret_nm |-> PyStr("TOYOTA")])
Vehicle2 ==
    PyDict([mispar_rechev |-> PyInt(2), tozeret_nm |-> PyStr("FORD"),
            error |-> PyStr("recall")])
\* A record that is not a mapping: an unexpected shape.
BadRecord == PyInt(7)
RecordValues == {Vehicle1, Vehicle2, BadRecord}

(***************************************************************************)
(* Upstream bodies of the query operation (datastore_search).              *)
(***************************************************************************)
RecordLists == {PyList(q) : q \in SeqsUpTo(RecordValues, MaxRecords)}
QueryResults ==
    {PyNone} \cup
    {PyDict(f) : f \in OptionalDicts(
        [total |-> {PyInt(n) : n \in 0..MaxTotal},
         records |-> {PyNone} \cup RecordLists])}
QueryBodies ==
    {EmptyList} \cup
    {PyDict(f) : f \in OptionalDicts(
        [success |-> {PyBool(TRUE), PyBool(FALSE)}, result |-> QueryResults])}
QueryResponses == TransportFailures \cup {Json(b) : b \in QueryBodies}

(***************************************************************************)
(* fetch_vehicle_by_id: the exact plate lookup.                            *)
(***************************************************************************)
\* The filter payload of the exact lookup.
ExactFilters(license_plate) == PyDict([mispar_rechev |-> license_plate])

ExactParams(license_plate) ==
    [resource_id |-> RESOURCE_ID,
     filters |-> JsonDumps(ExactFilters(license_plate))]

\* records[-1]: the last record for the first.
LastRecord(records) == records.items[Len(records.items)]

\* records[0]
FirstRecord(records) == records.items[1]

\* The body of fetch_vehicle_by_id from the upstream's answer on.
NormalizeExact(r) ==
    LET j == ReadJson(r) IN
    IF j.kind = "raise" THEN j
    ELSE LET data == j.value IN
    IF ~IsDict(data) THEN Raise("AttributeError", "no attribute 'get'")
    ELSE IF ~Succeeded(data)
    THEN Raise("ValueError", "Failed to fetch data from API")
    ELSE LET result == Get(data, "result", EmptyDict) IN
    IF ~IsDict(result) THEN Raise("AttributeError", "no attribute 'get'")
    ELSE LET records == Get(result, "records", EmptyList) IN
    IF ~Truthy(records) THEN Return(ErrorResult("Vehicle not found"))
    ELSE LET vehicle_data == FirstRecord(records) IN
    \* the log line reads vehicle_data.get(...)
    IF ~IsDict(vehicle_data) THEN Raise("AttributeError", "no attribute 'get'")
    ELSE Return(vehicle_data)

\* except Exception as e: return {"error": str(e)}
CatchException(o) ==
    IF o.kind = "raise" /\ o.exc \in ExceptionClasses
    THEN Return(ErrorResult(o.msg))
    ELSE o

\* The resource without its try/except.
VehicleInfoUnguarded(o) == o

\* vehicle_info: the vehicles://{license_plate} resource.
VehicleInfo(o) == CatchException(o)

\* The tool without its try/except.
GetVehicleByPlateToolUnguarded(o) == o

\* get_vehicle_by_plate_tool from the return of fetch_vehicle_by_id on: the
\* log lines test "error" in result and read result.get(...), which raise
\* inside the try block when the result is not a mapping.
GetVehicleByPlateTool(o) ==
    IF o.kind = "return" /\ ~IsDict(o.value)
    THEN CatchException(Raise("TypeError", "result is not a mapping"))
    ELSE CatchException(o)

(***************************************************************************)
(* search_vehicles (the coroutine defined at line 108): the multi-field    *)
(* search.  `a` is the record of its arguments.                            *)
(***************************************************************************)
\* How many records the log samples.
SampleSize == 3

\* str(x) without the list around it.
FilterValueBare(x) == PyStrOf(x)

\* [str(x)]: the value the filters dict holds for a field.
FilterValue(x) == PyList(<<PyStrOf(x)>>)

\* The filters dict without the tests for presence: every field gets a key.
SearchFiltersUnguarded(a) ==
    PyDict([k \in {"tozeret_nm", "degem_nm", "shnat_yitzur", "mispar_rechev"}
               |-> PyList(<<PyStrOf(a[k])>>)])

\* The filters dict without the manufacturer's branch.
SearchFiltersNoManufacturer(a) ==
    LET present ==
            {k \in {"degem_nm", "mispar_rechev"} : Truthy(a[k])}
            \cup {k \in {"shnat_yitzur"} : a[k] # PyNone}
    IN  PyDict([k \in present |-> FilterValue(a[k])])

\* The filters dict with `if shnat_yitzur:` for the year.
SearchFiltersYearTruthy(a) ==
    LET present ==
            {k \in {"tozeret_nm", "degem_nm", "mispar_rechev", "shnat_yitzur"} :
                Truthy(a[k])}
    IN  PyDict([k \in present |-> FilterValue(a[k])])

\* The filters dict: `if x:` for the three strings, `is not None` for the year.
SearchFilters(a) ==
    LET present ==
            {k \in {"tozeret_nm", "degem_nm", "mispar_rechev"} : Truthy(a[k])}
            \cup {k \in {"shnat_yitzur"} : a[k] # PyNone}
    IN  PyDict([k \in present |-> FilterValue(a[k])])

\* The form parameters of the POST.
SearchParams(a) ==
    LET base == [resource_id |-> RESOURCE_ID, limit |-> a.limit, offset |-> a.offset]
        year == IF a.shnat_yitzur # PyNone
                THEN ("shnat_yitzur" :> PyStrOf(a.shnat_yitzur)) @@ base
                ELSE base
        filters == SearchFilters(a)
    IN  IF Truthy(filters)
        THEN ("filters" :> JsonDumps(filters)) @@ year
        ELSE year

\* The returned records cut to the request's limit: records[:limit].
SearchResultCut(total_found, records, limit, offset) ==
    LET n == Len(records.items)
        keep == IF limit.n >= 0
                THEN (IF limit.n < n THEN limit.n ELSE n)
                ELSE (IF n + limit.n > 0 THEN n + limit.n ELSE 0)
    IN  PyDict([total |-> total_found,
                records |-> PyList(SubSeq(records.items, 1, keep)),
                limit |-> limit, offset |-> offset])

\* The total counted from the records returned: len(records).
SearchResultRecounted(total_found, records, limit, offset) ==
    PyDict([total |-> PyInt(Len(records.items)), records |-> records,
            limit |-> limit, offset |-> offset])

\* The result with "Vehicle not found" for an empty record list, as the exact
\* lookup has it.
SearchResultOrNotFound(total_found, records, limit, offset) ==
    IF records.items = <<>>
    THEN ErrorResult("Vehicle not found")
    ELSE PyDict([total |-> total_found, records |-> records,
                 limit |-> limit, offset |-> offset])

\* The dict search_vehicles returns.
SearchResult(total_found, records, limit, offset) ==
    PyDict([total |-> total_found, records |-> records,
            limit |-> limit, offset |-> offset])

\* The body of search_vehicles from the upstream's answer on.
NormalizeSearch(r, limit, offset) ==
    LET j == ReadJson(r) IN
    IF j.kind = "raise" THEN j
    ELSE LET data == j.value IN
    IF ~IsDict(data) THEN Raise("AttributeError", "no attribute 'get'")
    ELSE IF ~Succeeded(data)
    THEN Raise("ValueError", "Failed to fetch data from API")
    ELSE LET result == Get(data, "result", EmptyDict) IN
    IF ~IsDict(result) THEN Raise("AttributeError", "no attribute 'get'")
    ELSE LET total_found == Get(result, "total", PyInt(0))
             records == Get(result, "records", EmptyList) IN
    \* len(result.get("records", []))
    IF ~IsList(records) THEN Raise("TypeError", "has no len()")
    \* total_found > 0
    ELSE IF ~IsInt(total_found) THEN Raise("TypeError", "'>' not supported")
    \* the log of the first records reads vehicle.get(...)
    ELSE IF /\ total_found.n > 0
            /\ \E k \in 1..Len(records.items) :
                  k <= SampleSize /\ ~IsDict(records.items[k])
    THEN Raise("AttributeError", "no attribute 'get'")
    ELSE Return(SearchResult(total_found, records, limit, offset))

\* What the module's global name search_vehicles is bound to once the module
\* is loaded: line 437 defines the prompt under the name line 108 gave the
\* coroutine, and the name is looked up when the tool runs.
SearchVehiclesGlobal == "prompt"

\* search_vehicles_tool up to its call of search_vehicles: the arguments it
\* passes on, or what it returns without a request.
SearchVehiclesToolEnter(a) ==
    IF ~Truthy(RESOURCE_ID)
    THEN Return(ErrorResult("RESOURCE_ID is not configured."))
    ELSE IF SearchVehiclesGlobal # "coroutine"
    \* the prompt takes no tozeret_nm: the call raises TypeError
    THEN CatchException(Raise("TypeError", "search_vehicles is not the search coroutine"))
    ELSE NoOutcome

\* search_vehicles_tool from the return of search_vehicles on.
SearchVehiclesTool(o) == CatchException(o)

(***************************************************************************)
(* The metadata and catalog operations.                                    *)
(***************************************************************************)
PackageIds == {PyNone, PyStr(""), PyStr("pkg-1"), PyStr("pkg-2")}
ResourceResults ==
    {PyNone} \cup
    {PyDict(f) : f \in OptionalDicts([package_id |-> PackageIds])}
PackageResults ==
    {PyNone} \cup
    {PyDict(f) : f \in OptionalDicts(
        [license_title |-> {PyStr(""), PyStr("Creative Commons Zero")},
         license_id |-> {PyStr(""), PyStr("cc-zero")},
         license_url |-> {PyStr(""), PyStr("https://creativecommons.org/cc0")}])}
License1 == PyDict([id |-> PyStr("cc-zero"), title |-> PyStr("Creative Commons Zero")])
License2 == PyDict([id |-> PyStr("other-open"), title |-> PyStr("Other (Open)")])
CatalogResults ==
    {PyNone, EmptyDict} \cup
    {PyList(q) : q \in SeqsUpTo({License1, License2}, MaxLicenses)}

\* The envelopes around a set of results.
Envelopes(results) ==
    {EmptyList} \cup
    {PyDict(f) : f \in OptionalDicts(
        [success |-> {PyBool(TRUE), PyBool(FALSE)}, result |-> results])}
ResourceResponses == TransportFailures \cup {Json(b) : b \in Envelopes(ResourceResults)}
PackageResponses == TransportFailures \cup {Json(b) : b \in Envelopes(PackageResults)}
CatalogResponses == TransportFailures \cup {Json(b) : b \in Envelopes(CatalogResults)}

\* fetch_available_licenses from the upstream's answer on.
FetchAvailableLicenses(r) ==
    LET j == ReadJson(r) IN
    IF j.kind = "raise" THEN j
    ELSE IF ~IsDict(j.value) THEN Raise("AttributeError", "no attribute 'get'")
    ELSE IF ~Succeeded(j.value)
    THEN Raise("ValueError", "Failed to fetch licenses from API")
    ELSE Return(Get(j.value, "result", EmptyList))

\* fetch_resource_details from the upstream's answer on.
FetchResourceDetails(r) ==
    LET j == ReadJson(r) IN
    IF j.kind = "raise" THEN j
    ELSE IF ~IsDict(j.value) THEN Raise("AttributeError", "no attribute 'get'")
    ELSE IF ~Succeeded(j.value)
    THEN Raise("ValueError", "Failed to fetch resource details")
    ELSE Return(Get(j.value, "result", EmptyDict))

\* fetch_package_details from the upstream's answer on.
FetchPackageDetails(r) ==
    LET j == ReadJson(r) IN
    IF j.kind = "raise" THEN j
    ELSE IF ~IsDict(j.value) THEN Raise("AttributeError", "no attribute 'get'")
    ELSE IF ~Succeeded(j.value)
    THEN Raise("ValueError", "Failed to fetch package details")
    ELSE Return(Get(j.value, "result", EmptyDict))

\* list_available_licenses_tool
ListAvailableLicensesTool(o) == CatchException(o)

\* A missing license_url left as None.
LicenseUrlNone == PyNone

LicenseUrlSentinel == PyStr("Not explicitly provided in package details")

\* get_vehicle_dataset_license_tool, step 1: from the answer to resource_show
\* to the package id to look up (NoOutcome: go on to step 2) or the return.
LicenseStep1(r) ==
    LET o == FetchResourceDetails(r) IN
    IF o.kind = "raise" THEN CatchException(o)
    ELSE IF ~IsDict(o.value)
    THEN CatchException(Raise("AttributeError", "no attribute 'get'"))
    ELSE IF ~Truthy(Get(o.value, "package_id", PyNone))
    THEN Return(ErrorResult("Could not determine package_id for resource "
                            \o RESOURCE_ID.s))
    ELSE NoOutcome

\* The lookup sent with the resource's id in place of the package's.
PackageRequestByResource(package_id) ==
    Request("GET", ActionUrl("package_show"), [id |-> RESOURCE_ID])

\* The GET of fetch_package_details(package_id).
PackageRequest(package_id) ==
    Request("GET", ActionUrl("package_show"), [id |-> package_id])

\* resource_details.get("package_id")
PackageIdOf(r) == Get(FetchResourceDetails(r).value, "package_id", PyNone)

\* The test with `or` for `and`: a license with a title and no id is refused.
NoLicenseInfoEither(license_title, license_id) ==
    ~Truthy(license_title) \/ ~Truthy(license_id)

\* if not license_title and not license_id
NoLicenseInfo(license_title, license_id) ==
    ~Truthy(license_title) /\ ~Truthy(license_id)

\* get_vehicle_dataset_license_tool, step 2: from the answer to package_show.
LicenseStep2(package_id, r) ==
    LET o == FetchPackageDetails(r) IN
    IF o.kind = "raise" THEN CatchException(o)
    ELSE IF ~IsDict(o.value)
    THEN CatchException(Raise("AttributeError", "no attribute 'get'"))
    ELSE LET license_title == Get(o.value, "license_title", PyNone)
             license_id == Get(o.value, "license_id", PyNone)
             license_url == Get(o.value, "license_url", PyNone) IN
    IF NoLicenseInfo(license_title, license_id)
    THEN Return(ErrorResult("No license information found for package "
                            \o package_id.s))
    ELSE Return(PyDict(
            [package_id |-> package_id,
             resource_id |-> RESOURCE_ID,
             license_title |-> license_title,
             license_id |-> license_id,
             license_url |-> IF Truthy(license_url) THEN license_url
                             ELSE LicenseUrlSentinel]))

(***************************************************************************)
(* The state: one record of locals per invocation in progress.  Nothing    *)
(* else is kept: an invocation starts from its arguments alone and its     *)
(* locals are dropped when its result is handed to the caller.             *)
(***************************************************************************)
VARIABLES
    op,      \* the operation the invocation runs ("" when idle)
    args,    \* its arguments
    pc,      \* where it is: idle, query, catalog, resource_lookup, package_lookup, done
    calls,   \* the outbound requests it has issued, in order
    resps,   \* the upstream's answers it has received, in order
    result   \* its outcome once done

vars == <<op, args, pc, calls, resps, result>>

Invocations == {1}
NoArgs == <<>>

\* What a caller can pass.
PlateValues == {PyStr(""), PyStr("1013660"), PyStr("0000000")}
ManufacturerValues == {PyNone, PyStr(""), PyStr("TOYOTA")}
ModelValues == {PyNone, PyStr("COROLLA")}
YearValues == {PyNone, PyInt(0), PyInt(2006)}
SearchPlateValues == {PyNone, PyStr("1013660")}
LimitValues == {PyInt(n) : n \in -1..MaxLimit}
OffsetValues == {PyInt(-1), PyInt(0), PyInt(1)}

\* The arguments of search_vehicles (line 108).
SearchArgs ==
    [tozeret_nm : ManufacturerValues, degem_nm : ModelValues,
     shnat_yitzur : YearValues, mispar_rechev : SearchPlateValues,
     limit : LimitValues, offset : OffsetValues]

\* The arguments of search_vehicles_tool, which has no year parameter.
SearchToolArgs ==
    [tozeret_nm : ManufacturerValues, degem_nm : ModelValues,
     mispar_rechev : SearchPlateValues,
     limit : LimitValues, offset : OffsetValues]

\* search_vehicles_tool's call of search_vehicles: shnat_yitzur=None.
ToolSearchArgs(a) == ("shnat_yitzur" :> PyNone) @@ a

ExactOps == {"get_vehicle_by_plate", "vehicle_info"}
SearchOps == {"search_vehicles", "search_vehicles_tool"}
\* The operations the server exposes (tools and the resource).
ExposedOps == {"get_vehicle_by_plate", "vehicle_info", "search_vehicles_tool",
               "list_available_licenses", "get_vehicle_dataset_license"}

Init ==
    /\ op = [i \in Invocations |-> ""]
    /\ args = [i \in Invocations |-> NoArgs]
    /\ pc = [i \in Invocations |-> "idle"]
    /\ calls = [i \in Invocations |-> <<>>]
    /\ resps = [i \in Invocations |-> <<>>]
    /\ result = [i \in Invocations |-> NoOutcome]

\* A gateway call that sends its request a second time.
StartTwice(i, o, a, q, at) ==
    /\ op' = [op EXCEPT ![i] = o]
    /\ args' = [args EXCEPT ![i] = a]
    /\ calls' = [calls EXCEPT ![i] = <<q, q>>]
    /\ pc' = [pc EXCEPT ![i] = at]
    /\ UNCHANGED <<resps, result>>

\* An invocation's end that stores the outcome in a place every invocation
\* in progress reads its result from.
FinishShared(i, r, o) ==
    /\ resps' = [resps EXCEPT ![i] = Append(@, r)]
    /\ result' = [j \in DOMAIN result |-> o]
    /\ pc' = [pc EXCEPT ![i] = "done"]
    /\ UNCHANGED <<op, args, calls>>

\* An idle invocation starts operation o with arguments a and awaits request q.
Start(i, o, a, q, at) ==
    /\ op' = [op EXCEPT ![i] = o]
    /\ args' = [args EXCEPT ![i] = a]
    /\ calls' = [calls EXCEPT ![i] = <<q>>]
    /\ pc' = [pc EXCEPT ![i] = at]
    /\ UNCHANGED <<resps, result>>

\* The invocation receives answer r and ends with outcome o.
Finish(i, r, o) ==
    /\ resps' = [resps EXCEPT ![i] = Append(@, r)]
    /\ result' = [result EXCEPT ![i] = o]
    /\ pc' = [pc EXCEPT ![i] = "done"]
    /\ UNCHANGED <<op, args, calls>>

\* get_vehicle_by_plate_tool(mispar_rechev) up to the POST of fetch_vehicle_by_id.
GetVehicleByPlateCallWith(i, plates) ==
    /\ pc[i] = "idle"
    /\ \E plate \in plates :
        Start(i, "get_vehicle_by_plate", [license_plate |-> plate],
              Request("POST", API_ENDPOINT, ExactParams(plate)), "query")

GetVehicleByPlateCall(i) == GetVehicleByPlateCallWith(i, PlateValues)

\* vehicle_info(license_plate) up to the POST of fetch_vehicle_by_id.
VehicleInfoCall(i) ==
    /\ pc[i] = "idle"
    /\ \E plate \in PlateValues :
        Start(i, "vehicle_info", [license_plate |-> plate],
              Request("POST", API_ENDPOINT, ExactParams(plate)), "query")

\* The answer to an exact lookup arrives; the lookup and its wrapper finish.
ExactReturnWith(i, responses) ==
    /\ pc[i] = "query"
    /\ op[i] \in ExactOps
    /\ \E r \in responses :
          Finish(i, r, IF op[i] = "vehicle_info"
                       THEN VehicleInfo(NormalizeExact(r))
                       ELSE GetVehicleByPlateTool(NormalizeExact(r)))

ExactReturn(i) == ExactReturnWith(i, QueryResponses)

\* search_vehicles(...) (line 108) up to its POST.
SearchVehiclesCallWith(i, arguments) ==
    /\ pc[i] = "idle"
    /\ \E a \in arguments :
        Start(i, "search_vehicles", a,
              Request("POST", API_ENDPOINT, SearchParams(a)), "query")

SearchVehiclesCall(i) == SearchVehiclesCallWith(i, SearchArgs)

\* search_vehicles_tool(...): up to the POST of search_vehicles when the call
\* reaches it, to its return when it does not.
SearchVehiclesToolCall(i) ==
    /\ pc[i] = "idle"
    /\ \E a \in SearchToolArgs :
        LET o == SearchVehiclesToolEnter(a) IN
        IF o.kind = "none"
        THEN Start(i, "search_vehicles_tool", ToolSearchArgs(a),
                   Request("POST", API_ENDPOINT, SearchParams(ToolSearchArgs(a))),
                   "query")
        ELSE /\ op' = [op EXCEPT ![i] = "search_vehicles_tool"]
             /\ args' = [args EXCEPT ![i] = a]
             /\ result' = [result EXCEPT ![i] = o]
             /\ pc' = [pc EXCEPT ![i] = "done"]
             /\ UNCHANGED <<calls, resps>>

\* What the server does with an argument the tool's signature does not
\* declare (lines 242-248 take no shnat_yitzur): the argument validation of
\* the installed server library either drops it or refuses the call.
UndeclaredArgumentHandling == {"drop", "reject"}

\* A caller invokes the search_vehicles tool with a registration year, as the
\* test client does with {"shnat_yitzur": 2006, "limit": 1}.
SearchVehiclesToolCallWithYear(i) ==
    /\ pc[i] = "idle"
    /\ \E a \in SearchToolArgs, y \in YearValues \ {PyNone},
          h \in UndeclaredArgumentHandling :
        LET given == ("shnat_yitzur" :> y) @@ a
            o == SearchVehiclesToolEnter(a) IN
        IF h = "reject"
        THEN /\ op' = [op EXCEPT ![i] = "search_vehicles_tool"]
             /\ args' = [args EXCEPT ![i] = given]
             /\ pc' = [pc EXCEPT ![i] = "rejected"]
             /\ UNCHANGED <<calls, resps, result>>
        ELSE IF o.kind = "none"
        THEN Start(i, "search_vehicles_tool", given,
                   Request("POST", API_ENDPOINT, SearchParams(ToolSearchArgs(a))),
                   "query")
        ELSE /\ op' = [op EXCEPT ![i] = "search_vehicles_tool"]
             /\ args' = [args EXCEPT ![i] = given]
             /\ result' = [result EXCEPT ![i] = o]
             /\ pc' = [pc EXCEPT ![i] = "done"]
             /\ UNCHANGED <<calls, resps>>

\* The answer to a search arrives; the search and its wrapper finish.
SearchReturnWith(i, responses) ==
    /\ pc[i] = "query"
    /\ op[i] \in SearchOps
    /\ \E r \in responses :
          LET o == NormalizeSearch(r, args[i].limit, args[i].offset) IN
          Finish(i, r, IF op[i] = "search_vehicles_tool"
                       THEN SearchVehiclesTool(o) ELSE o)

SearchReturn(i) == SearchReturnWith(i, QueryResponses)

\* list_available_licenses_tool() up to the GET of fetch_available_licenses.
ListLicensesCall(i) ==
    /\ pc[i] = "idle"
    /\ Start(i, "list_available_licenses", NoArgs,
             Request("GET", ActionUrl("license_list"), <<>>), "catalog")

\* The answer to license_list arrives.
CatalogReturn(i) ==
    /\ pc[i] = "catalog"
    /\ \E r \in CatalogResponses :
          Finish(i, r, ListAvailableLicensesTool(FetchAvailableLicenses(r)))

\* get_vehicle_dataset_license_tool() up to the GET of fetch_resource_details.
DatasetLicenseCall(i) ==
    /\ pc[i] = "idle"
    /\ Start(i, "get_vehicle_dataset_license", NoArgs,
             Request("GET", ActionUrl("resource_show"), [id |-> RESOURCE_ID]),
             "resource_lookup")

\* The answer to resource_show arrives: the tool returns, or goes on to the
\* GET of fetch_package_details.
ResourceReturnWith(i, responses) ==
    /\ pc[i] = "resource_lookup"
    /\ \E r \in responses :
          LET o == LicenseStep1(r) IN
          IF o.kind = "none"
          THEN /\ resps' = [resps EXCEPT ![i] = Append(@, r)]
               /\ calls' = [calls EXCEPT ![i] =
                     Append(@, PackageRequest(PackageIdOf(r)))]
               /\ pc' = [pc EXCEPT ![i] = "package_lookup"]
               /\ UNCHANGED <<op, args, result>>
          ELSE Finish(i, r, o)

ResourceReturn(i) == ResourceReturnWith(i, ResourceResponses)

\* The answer to package_show arrives.
PackageReturnWith(i, responses) ==
    /\ pc[i] = "package_lookup"
    /\ \E r \in responses :
          Finish(i, r, LicenseStep2(calls[i][2].params.id, r))

PackageReturn(i) == PackageReturnWith(i, PackageResponses)

\* The states in which an invocation awaits the upstream.
InFlight == {"query", "catalog", "resource_lookup", "package_lookup"}

\* The invocation's task is cancelled while it awaits the upstream:
\* CancelledError is raised at the await and no except Exception catches it.
Cancel(i) ==
    /\ pc[i] \in InFlight
    /\ pc' = [pc EXCEPT ![i] = "cancelled"]
    /\ result' = [result EXCEPT ![i] = Raise("CancelledError", "")]
    /\ UNCHANGED <<op, args, calls, resps>>

\* The result is handed to the caller; the invocation's locals are dropped.
Deliver(i) ==
    /\ pc[i] \in {"done", "rejected", "cancelled"}
    /\ op' = [op EXCEPT ![i] = ""]
    /\ args' = [args EXCEPT ![i] = NoArgs]
    /\ pc' = [pc EXCEPT ![i] = "idle"]
    /\ calls' = [calls EXCEPT ![i] = <<>>]
    /\ resps' = [resps EXCEPT ![i] = <<>>]
    /\ result' = [result EXCEPT ![i] = NoOutcome]

Next ==
    \/ \E i \in DOMAIN pc : GetVehicleByPlateCall(i)
    \/ \E i \in DOMAIN pc : VehicleInfoCall(i)
    \/ \E i \in DOMAIN pc : ExactReturn(i)
    \/ \E i \in DOMAIN pc : SearchVehiclesCall(i)
    \/ \E i \in DOMAIN pc : SearchVehiclesToolCall(i)
    \/ \E i \in DOMAIN pc : SearchVehiclesToolCallWithYear(i)
    \/ \E i \in DOMAIN pc : SearchReturn(i)
    \/ \E i \in DOMAIN pc : ListLicensesCall(i)
    \/ \E i \in DOMAIN pc : CatalogReturn(i)
    \/ \E i \in DOMAIN pc : DatasetLicenseCall(i)
    \/ \E i \in DOMAIN pc : ResourceReturn(i)
    \/ \E i \in DOMAIN pc : PackageReturn(i)
    \/ \E i \in DOMAIN pc : Cancel(i)
    \/ \E i \in DOMAIN pc : Deliver(i)

Spec == Init /\ [][Next]_vars

(***************************************************************************)
(* Two invocations in progress at once: the handlers are coroutines on one *)
(* event loop, and a second call may start while the first awaits the      *)
(* upstream.  The inputs are a few of those above: a search, an exact      *)
(* lookup and the license resolution, each answered by a failure or a      *)
(* success.                                                                *)
(***************************************************************************)
ConcInvocations == {1, 2}
ConcPlates == {PyStr("1013660")}
ConcSearchArgs ==
    {[tozeret_nm |-> PyStr("TOYOTA"), degem_nm |-> PyNone,
      shnat_yitzur |-> PyNone, mispar_rechev |-> PyNone,
      limit |-> PyInt(1), offset |-> PyInt(0)]}
ConcQueryResponses ==
    {NetworkFailure,
     Json(PyDict([success |-> PyBool(FALSE)])),
     Json(PyDict([success |-> PyBool(TRUE),
                  result |-> PyDict([records |-> PyList(<<Vehicle1>>),
                                     total |-> PyInt(1)])]))}
ConcResourceResponses ==
    {StatusFailure,
     Json(PyDict([success |-> PyBool(TRUE),
                  result |-> PyDict([package_id |-> PyStr("pkg-1")])]))}
ConcPackageResponses ==
    {NetworkFailure,
     Json(PyDict([success |-> PyBool(TRUE),
                  result |-> PyDict([license_id |-> PyStr("cc-zero")])]))}

InitConc ==
    /\ op = [i \in ConcInvocations |-> ""]
    /\ args = [i \in ConcInvocations |-> NoArgs]
    /\ pc = [i \in ConcInvocations |-> "idle"]
    /\ calls = [i \in ConcInvocations |-> <<>>]
    /\ resps = [i \in ConcInvocations |-> <<>>]
    /\ result = [i \in ConcInvocations |-> NoOutcome]

NextConc ==
    \/ \E i \in DOMAIN pc : GetVehicleByPlateCallWith(i, ConcPlates)
    \/ \E i \in DOMAIN pc : ExactReturnWith(i, ConcQueryResponses)
    \/ \E i \in DOMAIN pc : SearchVehiclesCallWith(i, ConcSearchArgs)
    \/ \E i \in DOMAIN pc : SearchReturnWith(i, ConcQueryResponses)
    \/ \E i \in DOMAIN pc : DatasetLicenseCall(i)
    \/ \E i \in DOMAIN pc : ResourceReturnWith(i, ConcResourceResponses)
    \/ \E i \in DOMAIN pc : PackageReturnWith(i, ConcPackageResponses)
    \/ \E i \in DOMAIN pc : Cancel(i)
    \/ \E i \in DOMAIN pc : Deliver(i)

SpecConc == InitConc /\ [][NextConc]_vars

(***************************************************************************)
(* Properties.  The upstream's answers are read here from the raw          *)
(* envelope, independently of the operators above.                         *)
(***************************************************************************)
\* The answer is a JSON object whose success field is true.
EnvelopeSucceeds(r) ==
    /\ r.http = "json"
    /\ r.body.t = "dict"
    /\ "success" \in DOMAIN r.body.d
    /\ r.body.d.success = PyBool(TRUE)

\* The answer is a JSON object whose success field is false.
EnvelopeFails(r) ==
    /\ r.http = "json"
    /\ r.body.t = "dict"
    /\ "success" \in DOMAIN r.body.d
    /\ r.body.d.success = PyBool(FALSE)

\* The envelope carries a result that is a mapping.
HasResultMapping(r) ==
    /\ "result" \in DOMAIN r.body.d
    /\ r.body.d.result.t = "dict"

\* Field k of the envelope's result is a non-empty string.
ResultHasText(r, k) ==
    /\ k \in DOMAIN r.body.d.result.d
    /\ r.body.d.result.d[k].t = "str"
    /\ r.body.d.result.d[k].s # ""

\* The resource lookup succeeds and yields a package id.
ResourceYieldsPackage(r) ==
    EnvelopeSucceeds(r) /\ HasResultMapping(r) /\ ResultHasText(r, "package_id")

\* The package lookup succeeds and yields a license title or a license id.
PackageYieldsLicense(r) ==
    /\ EnvelopeSucceeds(r)
    /\ HasResultMapping(r)
    /\ ResultHasText(r, "license_title") \/ ResultHasText(r, "license_id")

IsErrorResult(o) ==
    o.kind = "return" /\ o.value.t = "dict" /\ DOMAIN o.value.d = {"error"}

IsLicenseInfo(o) ==
    /\ o.kind = "return"
    /\ o.value.t = "dict"
    /\ DOMAIN o.value.d =
          {"package_id", "resource_id", "license_title", "license_id", "license_url"}

LicenseDone(i) == pc[i] = "done" /\ op[i] = "get_vehicle_dataset_license"

\* C1: get_vehicle_dataset_license returns a LicenseInfo exactly when the
\* resource lookup succeeds with a package id and the package lookup succeeds
\* with a license title or id (a value that is present and not empty); in
\* every other combination of upstream answers it returns an error result.
C1_LicenseIffBothLinks ==
    \A i \in DOMAIN pc :
        LicenseDone(i) =>
            LET both == /\ Len(resps[i]) = 2
                        /\ ResourceYieldsPackage(resps[i][1])
                        /\ PackageYieldsLicense(resps[i][2])
            IN  /\ both => IsLicenseInfo(result[i])
                /\ ~both => IsErrorResult(result[i])

\* A resolution that ended with a LicenseInfo built from a title alone.
C1_Witness ==
    \E i \in DOMAIN pc :
        /\ LicenseDone(i)
        /\ IsLicenseInfo(result[i])
        /\ ~ResultHasText(resps[i][2], "license_id")

\* C2: the package-metadata call is issued only after the resource-metadata
\* call came back successfully with a package id, and with exactly that id;
\* when the resource lookup fails or yields no package id the resolution has
\* ended with an error and has issued no call besides the resource lookup.
C2_PackageCallOnlyAfterResource ==
    \A i \in DOMAIN pc :
        op[i] = "get_vehicle_dataset_license" =>
            /\ Len(calls[i]) \in {1, 2}
            /\ calls[i][1] = [method |-> "GET",
                              url |-> "https://data.gov.il/api/3/action/resource_show",
                              params |-> [id |-> RESOURCE_ID]]
            /\ Len(calls[i]) = 2 =>
                  /\ Len(resps[i]) >= 1
                  /\ ResourceYieldsPackage(resps[i][1])
                  /\ calls[i][2] =
                        [method |-> "GET",
                         url |-> "https://data.gov.il/api/3/action/package_show",
                         params |-> [id |-> resps[i][1].body.d.result.d.package_id]]
            /\ (Len(resps[i]) >= 1 /\ ~ResourceYieldsPackage(resps[i][1])) =>
                  /\ pc[i] = "done"
                  /\ IsErrorResult(result[i])
                  /\ Len(calls[i]) = 1

\* The package lookup is in flight for the package the resource named.
C2_Witness ==
    \E i \in DOMAIN pc :
        /\ pc[i] = "package_lookup"
        /\ Len(calls[i]) = 2
        /\ calls[i][2].params.id = PyStr("pkg-2")

ExactDone(i) == pc[i] = "done" /\ op[i] \in ExactOps
NotFound == [kind |-> "return",
             value |-> PyDict([error |-> PyStr("Vehicle not found")])]

\* The envelope's result is absent or a mapping, and its record set is
\* absent, null or a list.
HasRecordSet(r) ==
    \/ "result" \notin DOMAIN r.body.d
    \/ /\ r.body.d.result.t = "dict"
       /\ \/ "records" \notin DOMAIN r.body.d.result.d
          \/ r.body.d.result.d.records.t \in {"None", "list"}

\* The records of the envelope: the empty sequence when absent or null.
RecordsOf(r) ==
    IF /\ "result" \in DOMAIN r.body.d
       /\ "records" \in DOMAIN r.body.d.result.d
       /\ r.body.d.result.d.records.t = "list"
    THEN r.body.d.result.d.records.items
    ELSE <<>>

\* C3: an exact plate lookup whose envelope reports success yields NotFound
\* when the record set is empty or absent, and otherwise exactly the first
\* record of the upstream sequence (a record being a mapping), with no field
\* added, removed or changed.
C3_ExactFirstRecordOrNotFound ==
    \A i \in DOMAIN pc :
        (ExactDone(i) /\ EnvelopeSucceeds(resps[i][1]) /\ HasRecordSet(resps[i][1])) =>
            LET records == RecordsOf(resps[i][1]) IN
            /\ records = <<>> => result[i] = NotFound
            /\ (records # <<>> /\ records[1].t = "dict") =>
                  result[i] = [kind |-> "return", value |-> records[1]]

\* A lookup answered with two different records returned the first.
C3_Witness ==
    \E i \in DOMAIN pc :
        /\ ExactDone(i)
        /\ EnvelopeSucceeds(resps[i][1])
        /\ HasRecordSet(resps[i][1])
        /\ Len(RecordsOf(resps[i][1])) = 2
        /\ RecordsOf(resps[i][1])[1] = Vehicle2
        /\ RecordsOf(resps[i][1])[2] = Vehicle1
        /\ result[i].value = Vehicle2

\* C4: every exposed operation ends by returning a value whatever the
\* upstream answered: a transport failure, an error status, a body that is
\* not JSON, an envelope of another shape or without success = true all end
\* in an {"error": ...} result, never in an exception that leaves the
\* operation.
C4_NoExceptionEscapes ==
    \A i \in DOMAIN pc :
        (pc[i] = "done" /\ op[i] \in ExposedOps) =>
            /\ result[i].kind = "return"
            /\ (resps[i] # <<>> /\ ~EnvelopeSucceeds(resps[i][Len(resps[i])])) =>
                  IsErrorResult(result[i])

\* The plate tool answered a success:false envelope with an error result.
C4_Witness ==
    \E i \in DOMAIN pc :
        /\ pc[i] = "done"
        /\ op[i] = "get_vehicle_by_plate"
        /\ EnvelopeFails(resps[i][1])
        /\ IsErrorResult(result[i])

CriteriaFields == {"tozeret_nm", "degem_nm", "shnat_yitzur", "mispar_rechev"}

\* The invocation is a search that has issued its request.
SearchIssued(i) == op[i] \in SearchOps /\ calls[i] # <<>>

\* The invocation is an exact lookup that has issued its request.
ExactIssued(i) == op[i] \in ExactOps /\ calls[i] # <<>>

\* The filters map of a request: empty when the request carries none.
FiltersOf(q) ==
    IF "filters" \in DOMAIN q.params THEN q.params.filters.doc.d ELSE <<>>

\* C5: the filter map of a search request has a key only for criteria fields
\* present (not None) in the input; and when no criteria field is set the
\* request carries no filters at all, only the resource id and the
\* pagination as given.
C5_FilterKeysOnlyForPresentFields ==
    \A i \in DOMAIN pc :
        SearchIssued(i) =>
            LET q == calls[i][1] IN
            /\ \A k \in DOMAIN FiltersOf(q) :
                  k \in CriteriaFields /\ args[i][k] # PyNone
            /\ (\A k \in CriteriaFields : args[i][k] = PyNone) =>
                  /\ DOMAIN q.params = {"resource_id", "limit", "offset"}
                  /\ q.params.limit = args[i].limit
                  /\ q.params.offset = args[i].offset

\* A search by manufacturer alone is in flight with that one filter key.
C5_Witness ==
    \E i \in DOMAIN pc :
        /\ SearchIssued(i)
        /\ pc[i] = "query"
        /\ args[i].tozeret_nm = PyStr("TOYOTA")
        /\ args[i].degem_nm = PyNone
        /\ args[i].shnat_yitzur = PyNone
        /\ DOMAIN FiltersOf(calls[i][1]) = {"tozeret_nm"}

\* The string form of a criteria value, by cases.
StringForm(x) ==
    CASE x.t = "str" -> x
      [] x = [t |-> "int", n |-> 0] -> [t |-> "str", s |-> "0"]
      [] x = [t |-> "int", n |-> 2006] -> [t |-> "str", s |-> "2006"]

\* C6 as stated: in every query request, exact lookup and search alike, each
\* value of the filters map is a one-element list holding a string.
C6_EveryFilterValueIsAList ==
    \A i \in DOMAIN pc :
        (SearchIssued(i) \/ ExactIssued(i)) =>
            \A k \in DOMAIN FiltersOf(calls[i][1]) :
                LET v == FiltersOf(calls[i][1])[k] IN
                v.t = "list" /\ Len(v.items) = 1 /\ v.items[1].t = "str"

\* C6 as amended: in a search request each filters value is a one-element
\* list holding the string form of the criteria value; in an exact lookup
\* the filters map holds the plate string itself under mispar_rechev.
C6_FilterValueShapes ==
    \A i \in DOMAIN pc :
        /\ SearchIssued(i) =>
              \A k \in DOMAIN FiltersOf(calls[i][1]) :
                  FiltersOf(calls[i][1])[k] =
                      [t |-> "list", items |-> <<StringForm(args[i][k])>>]
        /\ ExactIssued(i) =>
              /\ "filters" \in DOMAIN calls[i][1].params
              /\ FiltersOf(calls[i][1]) = [mispar_rechev |-> args[i].license_plate]

\* A search by year is in flight with the year as the list ["2006"].
C6_Witness ==
    \E i \in DOMAIN pc :
        /\ SearchIssued(i)
        /\ args[i].shnat_yitzur = PyInt(2006)
        /\ "shnat_yitzur" \in DOMAIN FiltersOf(calls[i][1])
        /\ FiltersOf(calls[i][1]).shnat_yitzur.items = <<PyStr("2006")>>

\* C7: every query request carries no top-level parameter besides the
\* resource id, limit, offset and filters.
C7_OnlyQueryParameters ==
    \A i \in DOMAIN pc :
        (SearchIssued(i) \/ ExactIssued(i)) =>
            DOMAIN calls[i][1].params \subseteq
                {"resource_id", "limit", "offset", "filters"}

\* The invocation is a finished search that returned a SearchResult.
SearchReturned(i) ==
    /\ pc[i] = "done"
    /\ op[i] \in SearchOps
    /\ result[i].kind = "return"
    /\ "records" \in DOMAIN result[i].value.d

\* C8 as stated, for the requests of the data model (a positive limit): the
\* SearchResult holds at most limit records whatever the upstream answered.
C8_RecordsWithinLimit ==
    \A i \in DOMAIN pc :
        (SearchReturned(i) /\ args[i].limit.n >= 1) =>
            Len(result[i].value.d.records.items) <= args[i].limit.n

\* C8 as amended: the SearchResult holds at most limit records exactly when
\* the upstream's answer holds at most limit records.
C8_RecordsWithinLimitIffUpstream ==
    \A i \in DOMAIN pc :
        SearchReturned(i) =>
            (Len(result[i].value.d.records.items) <= args[i].limit.n
                <=> Len(RecordsOf(resps[i][1])) <= args[i].limit.n)

\* A search with limit 2 returned the two records the upstream sent.
C8_Witness ==
    \E i \in DOMAIN pc :
        /\ SearchReturned(i)
        /\ args[i].limit = PyInt(2)
        /\ Len(RecordsOf(resps[i][1])) = 2
        /\ Len(result[i].value.d.records.items) = 2

\* The total of the envelope: 0 when absent.
TotalOf(r) ==
    IF "result" \in DOMAIN r.body.d /\ "total" \in DOMAIN r.body.d.result.d
    THEN r.body.d.result.d.total
    ELSE [t |-> "int", n |-> 0]

\* The envelope's result is absent or a mapping whose records are absent or
\* a list.
HasRecordList(r) ==
    \/ "result" \notin DOMAIN r.body.d
    \/ /\ r.body.d.result.t = "dict"
       /\ \/ "records" \notin DOMAIN r.body.d.result.d
          \/ r.body.d.result.d.records.t = "list"

\* C9: a search whose envelope reports success returns total = the
\* envelope's total (0 when absent), records = the envelope's records in
\* their order (empty when absent) and the request's limit and offset: it
\* returns this for every answer whose records are mappings, and returns
\* nothing else for any answer.
C9_SearchResultVerbatim ==
    \A i \in DOMAIN pc :
        (/\ pc[i] = "done"
         /\ op[i] \in SearchOps
         /\ resps[i] # <<>>
         /\ EnvelopeSucceeds(resps[i][1])
         /\ HasRecordList(resps[i][1])) =>
            LET r == resps[i][1]
                expected ==
                    [kind |-> "return",
                     value |-> PyDict([total |-> TotalOf(r),
                                       records |-> PyList(RecordsOf(r)),
                                       limit |-> args[i].limit,
                                       offset |-> args[i].offset])]
            IN  /\ (\A k \in 1..Len(RecordsOf(r)) : RecordsOf(r)[k].t = "dict") =>
                      result[i] = expected
                /\ (op[i] = "search_vehicles" /\ result[i].kind = "return") =>
                      result[i] = expected

\* A search answered without a total and with two records in the order
\* Vehicle2, Vehicle1 returned total 0 and the records in that order.
C9_Witness ==
    \E i \in DOMAIN pc :
        /\ SearchReturned(i)
        /\ EnvelopeSucceeds(resps[i][1])
        /\ HasResultMapping(resps[i][1])
        /\ "total" \notin DOMAIN resps[i][1].body.d.result.d
        /\ RecordsOf(resps[i][1]) = <<Vehicle2, Vehicle1>>
        /\ result[i].value.d.total = PyInt(0)
        /\ result[i].value.d.records.items = <<Vehicle2, Vehicle1>>
        /\ args[i].offset = PyInt(1)

\* C10: an exact lookup or a search whose envelope reports success = false
\* ends in the upstream failure "Failed to fetch data from API" whatever the
\* result field holds: raised by search_vehicles, returned as an error
\* result by the tools and the resource; it is never the NotFound result.
C10_SuccessFalseIsUpstreamFailure ==
    \A i \in DOMAIN pc :
        (/\ pc[i] = "done"
         /\ op[i] \in ExactOps \cup SearchOps
         /\ resps[i] # <<>>
         /\ EnvelopeFails(resps[i][1])) =>
            /\ result[i] # NotFound
            /\ op[i] = "search_vehicles" =>
                  result[i] = [kind |-> "raise", exc |-> "ValueError",
                               msg |-> "Failed to fetch data from API"]
            /\ op[i] # "search_vehicles" =>
                  result[i] = [kind |-> "return",
                               value |-> PyDict([error |->
                                   PyStr("Failed to fetch data from API")])]

\* The plate tool answered success:false with records by the failure.
C10_Witness ==
    \E i \in DOMAIN pc :
        /\ pc[i] = "done"
        /\ op[i] = "get_vehicle_by_plate"
        /\ EnvelopeFails(resps[i][1])
        /\ HasResultMapping(resps[i][1])
        /\ RecordsOf(resps[i][1]) # <<>>
        /\ result[i] # NotFound

(***************************************************************************)
(* C11.  The search_vehicles tool and a registration year.                 *)
(***************************************************************************)
\* The caller gave the search_vehicles tool a registration year.
YearGivenToTool(i) ==
    /\ op[i] = "search_vehicles_tool"
    /\ "shnat_yitzur" \in DOMAIN args[i]
    /\ args[i]["shnat_yitzur"] # PyNone

\* The search request of the same arguments without the year.
SearchRequestWithoutYear(a) ==
    LET present == {k \in {"tozeret_nm", "degem_nm", "mispar_rechev"} :
                      a[k] # PyNone /\ a[k] # PyStr("")}
        filters == PyDict([k \in present |-> PyList(<<a[k]>>)])
        base == [resource_id |-> RESOURCE_ID,
                 limit |-> a.limit, offset |-> a.offset]
    IN  Request("POST", API_ENDPOINT,
                IF present = {} THEN base
                ELSE ("filters" :> JsonDumps(filters)) @@ base)

\* C11: a call of the search_vehicles tool that sets the registration year is
\* not rejected: it completes as the same search without the year, whose one
\* outbound request carries the other filters unchanged and no year.
C11_YearAcceptedAndDropped ==
    \A i \in DOMAIN pc :
        (YearGivenToTool(i) /\ pc[i] \in {"done", "rejected"}) =>
            /\ pc[i] = "done"
            /\ calls[i] = <<SearchRequestWithoutYear(args[i])>>

(***************************************************************************)
(* C12.  One outbound request per gateway call.                            *)
(***************************************************************************)
\* The operations that make one gateway call: the exact query, the search
\* query (search_vehicles of line 108) and the license catalog.
SingleCallOps == ExactOps \cup {"search_vehicles", "list_available_licenses"}

\* The outcome reports a failure: an error result or an exception.
FailureSurfaced(o) == IsErrorResult(o) \/ o.kind = "raise"

\* C12: each gateway call issues exactly one outbound request.  An operation
\* of one gateway call has one request from its start on and one answer when
\* it ends; the license resolution has one resource_show request, then at most
\* one package_show request, sent only after resource_show was answered with
\* success.  A transport failure is never followed by another request and
\* ends the invocation with the failure reported; no invocation that makes a
\* gateway call ends without a request.
C12_OneRequestPerGatewayCall ==
    \A i \in DOMAIN pc :
        /\ op[i] \in SingleCallOps =>
              /\ Len(calls[i]) = 1
              /\ Len(resps[i]) = (IF pc[i] = "done" THEN 1 ELSE 0)
              /\ (pc[i] = "done" /\ resps[i][1] \in TransportFailures) =>
                    FailureSurfaced(result[i])
        /\ op[i] = "get_vehicle_dataset_license" =>
              /\ Len(calls[i]) \in {1, 2}
              /\ calls[i][1].url = ActionUrl("resource_show")
              /\ Len(calls[i]) = 2 =>
                    /\ calls[i][2].url = ActionUrl("package_show")
                    /\ EnvelopeSucceeds(resps[i][1])
              /\ Len(resps[i]) = Len(calls[i]) - (IF pc[i] = "done" THEN 0 ELSE 1)
              /\ (pc[i] = "done" /\ resps[i][Len(resps[i])] \in TransportFailures) =>
                    FailureSurfaced(result[i])

\* An exact lookup whose one request met a network failure ended with an error
\* result, after one request and one answer.
C12_Witness ==
    \E i \in DOMAIN pc :
        /\ pc[i] = "done"
        /\ op[i] = "get_vehicle_by_plate"
        /\ Len(calls[i]) = 1
        /\ resps[i] = <<NetworkFailure>>
        /\ IsErrorResult(result[i])

(***************************************************************************)
(* C13.  The fields of a LicenseInfo.                                      *)
(***************************************************************************)
\* Field k of the envelope's result, None when the result has no such field.
ResultField(r, k) ==
    IF k \in DOMAIN r.body.d.result.d THEN r.body.d.result.d[k]
    ELSE [t |-> "None"]

\* C13: a LicenseInfo returned by the license resolution holds the package id
\* the resource lookup yielded, the configured resource id, the license title
\* and the license id as the package lookup gave them (None for the one that
\* is missing), and as its url the package's license_url unchanged when that
\* is a non-empty string, the fixed text "Not explicitly provided in package
\* details" otherwise.
C13_LicenseInfoFields ==
    \A i \in DOMAIN pc :
        (LicenseDone(i) /\ IsLicenseInfo(result[i])) =>
            LET res == resps[i][1]
                pkg == resps[i][2]
                info == result[i].value.d
            IN  /\ info.package_id = ResultField(res, "package_id")
                /\ info.resource_id =
                      [t |-> "str", s |-> "053cea08-09bc-40ec-8f7a-156f0677aff3"]
                /\ info.license_title = ResultField(pkg, "license_title")
                /\ info.license_id = ResultField(pkg, "license_id")
                /\ info.license_url =
                      IF ResultHasText(pkg, "license_url")
                      THEN ResultField(pkg, "license_url")
                      ELSE [t |-> "str",
                            s |-> "Not explicitly provided in package details"]

\* A package with a license id and no license_url gave a LicenseInfo whose url
\* is the fixed text.
C13_Witness ==
    \E i \in DOMAIN pc :
        /\ LicenseDone(i)
        /\ IsLicenseInfo(result[i])
        /\ ResultHasText(resps[i][2], "license_id")
        /\ "license_url" \notin DOMAIN resps[i][2].body.d.result.d
        /\ result[i].value.d.license_url.t = "str"
        /\ result[i].value.d.license_id = PyStr("cc-zero")

(***************************************************************************)
(* C14.  Pagination values.                                                *)
(***************************************************************************)
\* The outcome is a SearchResult.
IsSearchResult(o) ==
    /\ o.kind = "return"
    /\ o.value.t = "dict"
    /\ DOMAIN o.value.d = {"total", "records", "limit", "offset"}

\* C14: in every outbound search request and in every SearchResult returned,
\* limit is at least 1 and offset is at least 0, whatever limit and offset
\* the caller passed.
C14_LimitPositiveOffsetNonNegative ==
    \A i \in DOMAIN pc :
        op[i] \in SearchOps =>
            /\ \A k \in 1..Len(calls[i]) :
                  /\ calls[i][k].params.limit.n >= 1
                  /\ calls[i][k].params.offset.n >= 0
            /\ (pc[i] = "done" /\ IsSearchResult(result[i])) =>
                  /\ result[i].value.d.limit.n >= 1
                  /\ result[i].value.d.offset.n >= 0

(***************************************************************************)
(* C15.  The vehicles://{plate} resource and the get_vehicle_by_plate tool. *)
(***************************************************************************)
\* C15: for every plate and every upstream answer, an exact lookup ends the
\* same way through the resource and through the tool: its one request is
\* the exact query of the plate, and its result is both what the resource
\* returns and what the tool returns for that answer.
C15_ResourceMirrorsTool ==
    \A i \in DOMAIN pc :
        ExactDone(i) =>
            LET plate == args[i].license_plate
                found == NormalizeExact(resps[i][1])
            IN  /\ calls[i] = <<Request("POST", API_ENDPOINT, ExactParams(plate))>>
                /\ result[i] = VehicleInfo(found)
                /\ result[i] = GetVehicleByPlateTool(found)

\* A lookup through the resource returned the first record of an answer for
\* which the tool returns that record as well.
C15_Witness ==
    \E i \in DOMAIN pc :
        /\ ExactDone(i)
        /\ op[i] = "vehicle_info"
        /\ EnvelopeSucceeds(resps[i][1])
        /\ result[i] = Return(Vehicle1)
        /\ GetVehicleByPlateTool(NormalizeExact(resps[i][1])) = Return(Vehicle1)

(***************************************************************************)
(* C16.  Invocations in progress at once.                                  *)
(***************************************************************************)
\* The operations run side by side.
ConcOps == {"get_vehicle_by_plate", "search_vehicles", "get_vehicle_dataset_license"}

\* Everything the model holds for invocation i.
Locals(i) == <<op[i], args[i], pc[i], calls[i], resps[i], result[i]>>

\* The outcome of a finished invocation as its own arguments and the answers
\* to its own requests give it.
OwnOutcome(i) ==
    CASE op[i] = "get_vehicle_by_plate" ->
            GetVehicleByPlateTool(NormalizeExact(resps[i][1]))
      [] op[i] = "search_vehicles" ->
            NormalizeSearch(resps[i][1], args[i].limit, args[i].offset)
      [] op[i] = "get_vehicle_dataset_license" ->
            IF Len(resps[i]) = 1 THEN LicenseStep1(resps[i][1])
            ELSE LicenseStep2(ResultField(resps[i][1], "package_id"), resps[i][2])

\* The requests of an invocation as its own arguments and the answers to its
\* own requests give them.
OwnRequests(i) ==
    CASE op[i] = "get_vehicle_by_plate" ->
            <<Request("POST", API_ENDPOINT, ExactParams(args[i].license_plate))>>
      [] op[i] = "search_vehicles" ->
            <<Request("POST", API_ENDPOINT, SearchParams(args[i]))>>
      [] op[i] = "get_vehicle_dataset_license" ->
            IF resps[i] # <<>> /\ LicenseStep1(resps[i][1]).kind = "none"
            THEN <<Request("GET", ActionUrl("resource_show"), [id |-> RESOURCE_ID]),
                   PackageRequest(ResultField(resps[i][1], "package_id"))>>
            ELSE <<Request("GET", ActionUrl("resource_show"), [id |-> RESOURCE_ID])>>

\* C16: with two invocations in progress at once, each step changes the
\* locals of one invocation only, whether it starts, is answered, fails, is
\* cancelled or is delivered; the requests of every invocation and the
\* result of every finished one are those its own arguments and the answers
\* to its own requests give, whatever the other invocation did.
C16_InvocationsIndependent ==
    /\ [](\A i \in DOMAIN pc :
            op[i] \in ConcOps =>
                /\ calls[i] = OwnRequests(i)
                /\ pc[i] = "done" => result[i] = OwnOutcome(i))
    /\ [][\E i \in DOMAIN pc :
            \A j \in DOMAIN pc \ {i} : Locals(j)' = Locals(j)]_vars

\* One invocation was cancelled in flight and the other, an exact lookup,
\* returned the vehicle found.
C16_Witness ==
    \E i, j \in DOMAIN pc :
        /\ i # j
        /\ pc[i] = "cancelled"
        /\ pc[j] = "done"
        /\ op[j] = "get_vehicle_by_plate"
        /\ result[j] = Return(Vehicle1)

(***************************************************************************)
(* C17.  The shape of list_available_licenses' result.                     *)
(***************************************************************************)
\* C17: list_available_licenses returns a sequence in every outcome, and the
\* upstream's result list unchanged when the catalog call succeeds.
C17_AlwaysASequence ==
    \A i \in DOMAIN pc :
        (pc[i] = "done" /\ op[i] = "list_available_licenses") =>
            /\ result[i].kind = "return"
            /\ result[i].value.t = "list"
            /\ (/\ EnvelopeSucceeds(resps[i][1])
                /\ "result" \in DOMAIN resps[i][1].body.d
                /\ resps[i][1].body.d.result.t = "list") =>
                  result[i].value = resps[i][1].body.d.result

(***************************************************************************)
(* C18.  A search by manufacturer.                                         *)
(***************************************************************************)
\* The caller of search_vehicles named a manufacturer.
ManufacturerGiven(i) ==
    /\ op[i] = "search_vehicles"
    /\ args[i].tozeret_nm.t = "str"
    /\ args[i].tozeret_nm.s # ""

\* Record v has a manufacturer field other than m.
OtherManufacturer(v, m) ==
    v.t = "dict" /\ "tozeret_nm" \in DOMAIN v.d /\ v.d.tozeret_nm # m

\* The upstream applied the manufacturer filter exactly: its answer holds a
\* list of records, none of another manufacturer than m.
AppliedManufacturerFilter(r, m) ==
    /\ EnvelopeSucceeds(r)
    /\ HasRecordList(r)
    /\ \A k \in 1..Len(RecordsOf(r)) : ~OtherManufacturer(RecordsOf(r)[k], m)

\* C18: a search_vehicles call that names a manufacturer M sends filters
\* whose tozeret_nm entry is the one-element list of M, and when the upstream
\* applied that filter exactly, no record of the SearchResult returned has a
\* manufacturer field other than M.
C18_ManufacturerRestricted ==
    \A i \in DOMAIN pc :
        ManufacturerGiven(i) =>
            LET m == args[i].tozeret_nm IN
            /\ Len(calls[i]) = 1
            /\ "tozeret_nm" \in DOMAIN FiltersOf(calls[i][1])
            /\ FiltersOf(calls[i][1]).tozeret_nm = [t |-> "list", items |-> <<m>>]
            /\ (/\ pc[i] = "done"
                /\ AppliedManufacturerFilter(resps[i][1], m)
                /\ IsSearchResult(result[i])) =>
                  \A k \in 1..Len(result[i].value.d.records.items) :
                      ~OtherManufacturer(result[i].value.d.records.items[k], m)

\* A search for TOYOTA answered with one TOYOTA record returned that record.
C18_Witness ==
    \E i \in DOMAIN pc :
        /\ ManufacturerGiven(i)
        /\ pc[i] = "done"
        /\ AppliedManufacturerFilter(resps[i][1], args[i].tozeret_nm)
        /\ IsSearchResult(result[i])
        /\ result[i].value.d.records = PyList(<<Vehicle1>>)

(***************************************************************************)
(* C19.  Empty strings and the year 0 in the search filters.               *)
(***************************************************************************)
\* The criteria fields the claim has forwarded: the manufacturer, the model
\* and the plate when a non-empty string, the year when an integer.
ForwardedFields(a) ==
    {k \in {"tozeret_nm", "degem_nm", "mispar_rechev"} :
        a[k].t = "str" /\ a[k].s # ""}
    \cup {k \in {"shnat_yitzur"} : a[k].t = "int"}

\* C19: the filters of a search_vehicles request have a key exactly for the
\* manufacturer, model and plate given as non-empty strings and for the year
\* given as an integer: an empty string is left out like an absent field,
\* the year 0 is sent like any other year.
C19_ForwardedExactlyWhenSet ==
    \A i \in DOMAIN pc :
        (op[i] = "search_vehicles" /\ calls[i] # <<>>) =>
            DOMAIN FiltersOf(calls[i][1]) = ForwardedFields(args[i])

\* A search with an empty manufacturer and the year 0 is in flight with the
\* year as its only filter.
C19_Witness ==
    \E i \in DOMAIN pc :
        /\ op[i] = "search_vehicles"
        /\ calls[i] # <<>>
        /\ args[i].tozeret_nm = PyStr("")
        /\ args[i].shnat_yitzur = PyInt(0)
        /\ DOMAIN FiltersOf(calls[i][1]) = {"shnat_yitzur"}
        /\ FiltersOf(calls[i][1]).shnat_yitzur = PyList(<<PyStr("0")>>)

(***************************************************************************)
(* C20.  A search that matches nothing.                                    *)
(***************************************************************************)
\* C20: no search ends with the "Vehicle not found" error; when the upstream
\* reports success with no record, search_vehicles returns a SearchResult
\* with no records, the upstream's total (0 when it gives none) and the
\* request's limit and offset, also when the search was by plate.
C20_SearchNeverNotFound ==
    \A i \in DOMAIN pc :
        (pc[i] = "done" /\ op[i] \in SearchOps) =>
            /\ result[i] # NotFound
            /\ (/\ op[i] = "search_vehicles"
                /\ EnvelopeSucceeds(resps[i][1])
                /\ HasRecordList(resps[i][1])
                /\ RecordsOf(resps[i][1]) = <<>>) =>
                  result[i] =
                      [kind |-> "return",
                       value |-> PyDict([total |-> TotalOf(resps[i][1]),
                                         records |-> PyList(<<>>),
                                         limit |-> args[i].limit,
                                         offset |-> args[i].offset])]

\* A search by plate answered with success and an empty record list returned
\* a SearchResult without records.
C20_Witness ==
    \E i \in DOMAIN pc :
        /\ pc[i] = "done"
        /\ op[i] = "search_vehicles"
        /\ args[i].mispar_rechev = PyStr("1013660")
        /\ EnvelopeSucceeds(resps[i][1])
        /\ HasResultMapping(resps[i][1])
        /\ "records" \in DOMAIN resps[i][1].body.d.result.d
        /\ resps[i][1].body.d.result.d.records = PyList(<<>>)
        /\ IsSearchResult(result[i])
        /\ result[i].value.d.records = PyList(<<>>)

=============================================================================
